---- MODULE Spec2Model ----
(***************************************************************************)
(* Model of the relay block Forwarder (relay/pkg/block/forwarder.go).      *)
(*                                                                         *)
(* One goroutine runs Forwarder.loop; external producers send headers on   *)
(* headersQueue; the owner of the context may cancel it at any time.       *)
(* A header is identified by its Height: the tests build headers with      *)
(* Hash = Height and PrevHash = Height - 1.                                *)
(*                                                                         *)
(* A Go select is modelled by one action per case, each enabled exactly    *)
(* when its channel is ready: when several cases are ready the runtime     *)
(* picks any of them, and a goroutine parked in a select is resumed by the *)
(* first event, which is the same as taking the step right after it.       *)
(***************************************************************************)
EXTENDS Integers, Sequences, FiniteSets

\* ---------------------------------------------------------------- constants

headersQueueSize == 50

headersBatchSize == 5

difficultyEpochDuration == 2016

\* ------------------------------------------------------------------- bounds

\* Number of headers the producers enqueue over a run.
MaxHeaders == 7

\* Number of headers the producers enqueue over a long run (SpecLong).
MaxLongHeaders == 9

\* Heights of the first header producers enqueue: far from and around a
\* difficulty epoch boundary.
FirstHeights == {1, 2012, 2014, 2016}

\* bestHeader before any update.
NoHeader == 0 - 1

VARIABLES
    pc,               \* position of the loop goroutine
    cancelled,        \* ctx.Done() is closed
    headersQueue,     \* f.headersQueue, a buffered channel
    headers,          \* the batch accumulated by pullHeadersFromQueue
    timerActive,      \* headerTimer is armed and has not expired
    timerC,           \* headerTimer.C holds an unread expiry value
    processedHeaders, \* f.processedHeaders
    bestHeader,       \* header last handed to updateBestHeader
    errChan,          \* f.errChan, capacity 1
    hostSubmissions,  \* sub-batches submitted to the host chain
    firstHeight,      \* height of the first header producers enqueue
    produced,         \* number of headers enqueued so far
    knownHeaders,     \* hashes the chains already know (anchors)
    pushLog,          \* batches passed to pushHeadersToChain, in order
    sleptFull,        \* history: the sleep after the last push ran to its end
    atCancel,         \* history: dequeues and pushes done when ctx was cancelled
    drained           \* history: this pull phase drained an expired headerTimer

vars == <<pc, cancelled, headersQueue, headers, timerActive, timerC,
          processedHeaders, bestHeader, errChan, hostSubmissions,
          firstHeight, produced, knownHeaders, pushLog,
          sleptFull, atCancel, drained>>

\* Headers taken off headersQueue so far.
Dequeued == produced - Len(headersQueue)

\* ------------------------------------------------------------------ helpers

Last(s) == s[Len(s)]

Hash(h) == h

PrevHash(h) == h - 1

\* The i-th header the producers enqueue (ascending, linked heights).
Enqueued(i) == firstHeight + i - 1

EnqueuedSeq == [i \in 1..produced |-> Enqueued(i)]

RECURSIVE Flatten(_)
Flatten(ss) == IF ss = <<>> THEN <<>> ELSE Head(ss) \o Flatten(Tail(ss))

IsPrefix(s, t) == Len(s) <= Len(t) /\ SubSeq(t, 1, Len(s)) = s

\* ---------------------------------------------------------- RunForwarder

Init ==
    /\ pc = "top"
    /\ cancelled = FALSE
    /\ headersQueue = <<>>
    /\ headers = <<>>
    /\ timerActive = FALSE
    /\ timerC = FALSE
    /\ processedHeaders = 0
    /\ bestHeader = NoHeader
    /\ errChan = <<>>
    /\ hostSubmissions = <<>>
    /\ firstHeight \in FirstHeights
    /\ produced = 0
    /\ knownHeaders \in {{}, {PrevHash(firstHeight)}}
    /\ pushLog = <<>>
    /\ sleptFull = FALSE
    /\ atCancel = [dequeued |-> 0, pushes |-> 0]
    /\ drained = FALSE

\* -------------------------------------------------------------- environment

\* A producer sends the next header on headersQueue (blocks when full).
Enqueue ==
    /\ produced < MaxHeaders
    /\ Len(headersQueue) < headersQueueSize
    /\ headersQueue' = Append(headersQueue, Enqueued(produced + 1))
    /\ produced' = produced + 1
    /\ UNCHANGED <<pc, cancelled, headers, timerActive, timerC,
                   processedHeaders, bestHeader, errChan, hostSubmissions,
                   firstHeight, knownHeaders, pushLog>>
    /\ UNCHANGED <<sleptFull, atCancel, drained>>

\* The owner cancels the context.
Cancel ==
    /\ ~cancelled
    /\ cancelled' = TRUE
    /\ UNCHANGED <<pc, headersQueue, headers, timerActive, timerC,
                   processedHeaders, bestHeader, errChan, hostSubmissions,
                   firstHeight, produced, knownHeaders, pushLog>>
    /\ atCancel' = [dequeued |-> Dequeued, pushes |-> Len(pushLog)]
    /\ UNCHANGED <<sleptFull, drained>>

\* headerTimeout elapses: the runtime sends the expiry on headerTimer.C.
TimerFire ==
    /\ timerActive
    /\ timerActive' = FALSE
    /\ timerC' = TRUE
    /\ UNCHANGED <<pc, cancelled, headersQueue, headers,
                   processedHeaders, bestHeader, errChan, hostSubmissions,
                   firstHeight, produced, knownHeaders, pushLog>>
    /\ UNCHANGED <<sleptFull, atCancel, drained>>

\* ------------------------------------------------- pullHeadersFromQueue

\* Faulty variant: the loop condition written len(headers) <= headersBatchSize.
BatchFull_OffByOne(hs) == ~(Len(hs) <= headersBatchSize)

\* for len(headers) < headersBatchSize: the loop is left when this holds.
BatchFull(hs) == ~(Len(hs) < headersBatchSize)

\* Faulty variant: the new header is put in front of the batch.
Collected_Prepend(hs, header) == <<header>> \o hs

\* headers = append(headers, header)
Collected(hs, header) == Append(hs, header)

\* Faulty variant: the timer case returns whatever was collected, even nothing.
TimeoutReturns_Always(hs) == TRUE

\* Faulty variant: the timer case resets the timer whatever was collected.
TimeoutReturns_Never(hs) == FALSE

\* if len(headers) > 0 in the timer case: the batch is returned.
TimeoutReturns(hs) == Len(hs) > 0

\* pullHeadersFromQueue returns hs to loop: the deferred headerTimer.Stop()
\* runs and the timer is dropped; loop continues on an empty batch and
\* otherwise goes on to push it.
PullReturn(hs) ==
    /\ headers' = hs
    /\ timerActive' = FALSE
    /\ timerC' = FALSE
    /\ pc' = IF Len(hs) = 0 THEN "top" ELSE "push"

\* Faulty variant: the header case leaves headerTimer as it is (no Stop, no
\* drain, no Reset).
PullHeader_NoReset ==
    /\ pc = "pull"
    /\ headersQueue # <<>>
    /\ headersQueue' = Tail(headersQueue)
    /\ LET hs == Collected(headers, Head(headersQueue))
       IN  IF BatchFull(hs)
           THEN PullReturn(hs)
           ELSE /\ pc' = "pull"
                /\ headers' = hs
                /\ UNCHANGED <<timerActive, timerC>>
    /\ UNCHANGED <<cancelled, processedHeaders, bestHeader, errChan,
                   hostSubmissions, firstHeight, produced, knownHeaders,
                   pushLog, sleptFull, atCancel>>
    /\ drained' = (pc' = "pull" /\ drained)

\* case header := <-f.headersQueue
PullHeader ==
    /\ pc = "pull"
    /\ headersQueue # <<>>
    /\ headersQueue' = Tail(headersQueue)
    /\ LET hs == Collected(headers, Head(headersQueue))
           stopped == timerActive        \* result of headerTimer.Stop()
       IN  IF ~stopped /\ ~timerC
           THEN \* <-headerTimer.C with nothing to receive: blocks for good
                /\ pc' = "blocked"
                /\ headers' = hs
                /\ timerActive' = FALSE
                /\ timerC' = FALSE
           ELSE IF BatchFull(hs)
           THEN PullReturn(hs)
           ELSE \* drained if needed, then headerTimer.Reset(headerTimeout)
                /\ pc' = "pull"
                /\ headers' = hs
                /\ timerActive' = TRUE
                /\ timerC' = FALSE
    /\ UNCHANGED <<cancelled, processedHeaders, bestHeader, errChan,
                   hostSubmissions, firstHeight, produced, knownHeaders,
                   pushLog>>
    /\ drained' = (pc' = "pull" /\ (drained \/ (~timerActive /\ timerC)))
    /\ UNCHANGED <<sleptFull, atCancel>>

\* Faulty variant: the timer case with nothing collected does not reset the
\* timer.
PullTimeout_NoReset ==
    /\ pc = "pull"
    /\ timerC
    /\ IF TimeoutReturns(headers)
       THEN PullReturn(headers)
       ELSE /\ pc' = "pull"
            /\ headers' = headers
            /\ timerActive' = FALSE
            /\ timerC' = FALSE
    /\ UNCHANGED <<cancelled, headersQueue, processedHeaders, bestHeader,
                   errChan, hostSubmissions, firstHeight, produced,
                   knownHeaders, pushLog, sleptFull, atCancel>>
    /\ drained' = (pc' = "pull" /\ drained)

\* case <-headerTimer.C
PullTimeout ==
    /\ pc = "pull"
    /\ timerC
    /\ IF TimeoutReturns(headers)
       THEN PullReturn(headers)
       ELSE /\ pc' = "pull"
            /\ headers' = headers
            /\ timerActive' = TRUE
            /\ timerC' = FALSE
    /\ UNCHANGED <<cancelled, headersQueue, processedHeaders, bestHeader,
                   errChan, hostSubmissions, firstHeight, produced,
                   knownHeaders, pushLog>>
    /\ drained' = (pc' = "pull" /\ drained)
    /\ UNCHANGED <<sleptFull, atCancel>>

\* case <-ctx.Done()
PullCancel ==
    /\ pc = "pull"
    /\ cancelled
    /\ PullReturn(headers)
    /\ UNCHANGED <<cancelled, headersQueue, processedHeaders, bestHeader,
                   errChan, hostSubmissions, firstHeight, produced,
                   knownHeaders, pushLog>>
    /\ drained' = (pc' = "pull" /\ drained)
    /\ UNCHANGED <<sleptFull, atCancel>>

\* --------------------------------------------------- pushHeadersToChain

startDifficulty(hs) == hs[1] % difficultyEpochDuration

endDifficulty(hs) == Last(hs) % difficultyEpochDuration

\* Faulty variant: the spanning test written with >= instead of >.
difficultyCase_NonStrict(hs) ==
    IF startDifficulty(hs) = 0
    THEN "first"
    ELSE IF startDifficulty(hs) >= endDifficulty(hs)
    THEN "span"
    ELSE "single"

\* The branch pushHeadersToChain takes: a difficulty change first, a batch
\* that spans a difficulty change, or no difficulty change.
difficultyCase(hs) ==
    IF startDifficulty(hs) = 0
    THEN "first"
    ELSE IF startDifficulty(hs) > endDifficulty(hs)
    THEN "span"
    ELSE "single"

\* Host-chain submissions made for a batch: each of the three branches is
\* empty in the source, so none is made.
Submissions(hs) ==
    IF difficultyCase(hs) = "first"
    THEN <<>>
    ELSE IF difficultyCase(hs) = "span"
    THEN <<>>
    ELSE <<>>

\* Faulty variant: the threshold compared with > instead of >=.
ReachesThreshold_Strict(n, hs) == n + Len(hs) > headersBatchSize

\* f.processedHeaders >= headersBatchSize after adding the batch.
ReachesThreshold(n, hs) == n + Len(hs) >= headersBatchSize

\* updateBestHeader(header): the host chain's best-known digest becomes the
\* header's.
updateBestHeader(header) == bestHeader' = Hash(header)

pushHeadersToChain(hs) ==
    IF Len(hs) = 0
    THEN UNCHANGED <<hostSubmissions, processedHeaders, bestHeader>>
    ELSE /\ hostSubmissions' = hostSubmissions \o Submissions(hs)
         /\ IF ReachesThreshold(processedHeaders, hs)
            THEN /\ updateBestHeader(Last(hs))
                 /\ processedHeaders' = 0
            ELSE /\ processedHeaders' = processedHeaders + Len(hs)
                 /\ UNCHANGED bestHeader

\* --------------------------------------------------------------- loop

\* Faulty variant: the top of the loop never looks at the context.
LoopSeesDone_Never == FALSE

\* case <-ctx.Done() of the select at the top of the loop.
LoopSeesDone == cancelled

\* Top of an iteration: select on ctx.Done() with a default that starts
\* pullHeadersFromQueue (empty batch, new headerTimer).
LoopTop ==
    /\ pc = "top"
    /\ IF LoopSeesDone
       THEN /\ pc' = "stopped"
            /\ UNCHANGED <<headers, timerActive, timerC>>
       ELSE /\ pc' = "pull"
            /\ headers' = <<>>
            /\ timerActive' = TRUE
            /\ timerC' = FALSE
    /\ UNCHANGED <<cancelled, headersQueue, processedHeaders, bestHeader,
                   errChan, hostSubmissions, firstHeight, produced,
                   knownHeaders, pushLog>>
    /\ UNCHANGED <<sleptFull, atCancel, drained>>

\* f.pushHeadersToChain(headers) on a non-empty batch.
Push ==
    /\ pc = "push"
    /\ pushHeadersToChain(headers)
    /\ pushLog' = Append(pushLog, headers)
    /\ pc' = "sleep"
    /\ UNCHANGED <<cancelled, headersQueue, headers, timerActive, timerC,
                   errChan, firstHeight, produced, knownHeaders>>
    /\ sleptFull' = FALSE
    /\ UNCHANGED <<atCancel, drained>>

\* case <-time.After(forwarderSleepTime)
SleepDone ==
    /\ pc = "sleep"
    /\ pc' = "top"
    /\ UNCHANGED <<cancelled, headersQueue, headers, timerActive, timerC,
                   processedHeaders, bestHeader, errChan, hostSubmissions,
                   firstHeight, produced, knownHeaders, pushLog>>
    /\ sleptFull' = TRUE
    /\ UNCHANGED <<atCancel, drained>>

\* case <-ctx.Done() of the sleep
SleepCancel ==
    /\ pc = "sleep"
    /\ cancelled
    /\ pc' = "top"
    /\ UNCHANGED <<cancelled, headersQueue, headers, timerActive, timerC,
                   processedHeaders, bestHeader, errChan, hostSubmissions,
                   firstHeight, produced, knownHeaders, pushLog>>
    /\ UNCHANGED <<sleptFull, atCancel, drained>>

Next ==
    \/ Enqueue
    \/ Cancel
    \/ TimerFire
    \/ LoopTop
    \/ PullHeader
    \/ PullTimeout
    \/ PullCancel
    \/ Push
    \/ SleepDone
    \/ SleepCancel

Spec == Init /\ [][Next]_vars

\* A producer sends the next header, in a run of up to MaxLongHeaders headers.
EnqueueLong ==
    /\ produced < MaxLongHeaders
    /\ Len(headersQueue) < headersQueueSize
    /\ headersQueue' = Append(headersQueue, Enqueued(produced + 1))
    /\ produced' = produced + 1
    /\ UNCHANGED <<pc, cancelled, headers, timerActive, timerC,
                   processedHeaders, bestHeader, errChan, hostSubmissions,
                   firstHeight, knownHeaders, pushLog>>
    /\ UNCHANGED <<sleptFull, atCancel, drained>>

NextLong ==
    \/ EnqueueLong
    \/ Cancel
    \/ TimerFire
    \/ LoopTop
    \/ PullHeader
    \/ PullTimeout
    \/ PullCancel
    \/ Push
    \/ SleepDone
    \/ SleepCancel

\* The same program with more headers delivered: enough for a batch of 4
\* followed by a full batch.
SpecLong == Init /\ [][NextLong]_vars

\* The scheduler runs the loop goroutine, a ready select case that stays
\* ready is eventually chosen, and both timers eventually expire.
FairSpec ==
    /\ Spec
    /\ WF_vars(TimerFire)
    /\ WF_vars(LoopTop)
    /\ WF_vars(PullHeader)
    /\ WF_vars(PullTimeout)
    /\ WF_vars(PullCancel)
    /\ WF_vars(Push)
    /\ WF_vars(SleepDone)
    /\ WF_vars(SleepCancel)

\* ------------------------------------------------------------ properties

\* A push step of the loop: a batch was handed to pushHeadersToChain.
PushStep == pushLog' # pushLog

\* A return of pullHeadersFromQueue to the loop.
PullReturns == pc = "pull" /\ pc' \in {"top", "push"}

\* The batch's anchor (the header its first header extends) is known: it was
\* on the chain at the start or was pushed before.
AnchorFound(i) ==
    PrevHash(pushLog[i][1]) \in
        knownHeaders \cup
        {Hash(Flatten(SubSeq(pushLog, 1, i - 1))[k]) :
            k \in 1..Len(Flatten(SubSeq(pushLog, 1, i - 1)))}

\* Some header of the batch other than the first sits on an epoch boundary.
Spans(hs) == \E i \in 2..Len(hs) : hs[i] % 2016 = 0

\* C1: once cancellation is signalled the loop never dequeues a header, so
\* the queue never shrinks from then on.
C1_NoDequeueAfterCancel ==
    [][cancelled => Len(headersQueue') >= Len(headersQueue)]_vars

\* C2: once cancellation is signalled no push phase is started.
C2_NoPushAfterCancel == [][cancelled => ~PushStep]_vars

\* C3: once a batch whose anchor is not found has been pushed, exactly one
\* error is on the error channel, the loop has stopped and that push was the
\* last one.
C3_PushErrorStopsLoop ==
    \A i \in 1..Len(pushLog) :
        ~AnchorFound(i) =>
            /\ Len(errChan) = 1
            /\ pc = "stopped"
            /\ Len(pushLog) = i

\* C4: the push of a batch that crosses a multiple of 2016 makes exactly two
\* host-chain submissions that split the batch at the boundary height.
C4_SpanningBatchSplit ==
    [][(PushStep /\ Spans(headers)) =>
        \E k \in 1..(Len(headers) - 1) :
            /\ headers[k + 1] % 2016 = 0
            /\ hostSubmissions' = hostSubmissions \o
                   << SubSeq(headers, 1, k),
                      SubSeq(headers, k + 1, Len(headers)) >>]_vars

C6_PushedIsPrefixOfEnqueued == IsPrefix(Flatten(pushLog), EnqueuedSeq)

\* Two batches were pushed, the first of them a full one.
C6_Witness ==
    /\ Len(pushLog) >= 2
    /\ Len(pushLog[1]) = 5
    /\ Len(Flatten(pushLog)) = MaxHeaders

\* C7: the pull phase returns at most 5 headers; it returns fewer only on
\* the timer case with at least one header collected or with the context
\* cancelled, nothing being collected by that step; and collecting the 5th
\* header returns at once.
C7_PullBatchSize ==
    [][/\ PullReturns =>
            /\ Len(headers') <= 5
            /\ Len(headers') < 5 =>
                  /\ headers' = headers
                  /\ cancelled \/ (timerC /\ Len(headers) >= 1)
       /\ (pc = "pull" /\ Len(headers') >= 5) => pc' # "pull"]_vars

\* A full batch was returned to a loop that is not cancelled.
C7_Witness == pc = "push" /\ Len(headers) = 5 /\ ~cancelled

\* C8: when the timer case is taken with k >= 1 headers collected, the pull
\* phase returns exactly those headers; and with headers collected and the
\* timer expired the pull phase does not wait for ever.
C8_IdlePartialBatch ==
    /\ [][(/\ pc = "pull"
           /\ Len(headers) >= 1
           /\ timerC /\ ~timerC'
           /\ headersQueue' = headersQueue)
          => (pc' = "push" /\ headers' = headers)]_vars
    /\ (pc = "pull" /\ Len(headers) >= 1 /\ timerC) ~> (pc # "pull")

\* A partial batch was returned on the timer with the queue idle.
C8_Witness ==
    /\ pc = "push"
    /\ Len(headers) \in 1..4
    /\ headersQueue = <<>>
    /\ ~cancelled

\* C10: a cancelled loop eventually stops, and a stopped loop stays stopped:
\* it dequeues nothing, pushes nothing and updates no digest.
C10_CancelStopsForGood ==
    /\ cancelled ~> (pc = "stopped")
    /\ [][pc = "stopped" =>
            /\ pc' = "stopped"
            /\ Len(headersQueue') >= Len(headersQueue)
            /\ ~PushStep
            /\ bestHeader' = bestHeader]_vars

\* The loop stopped after a push, with headers left in the queue.
C10_Witness ==
    /\ pc = "stopped"
    /\ Len(pushLog) >= 1
    /\ headersQueue # <<>>

\* The host chain's best-known digest is the hash of a header the source
\* chain knows: one it held at the start or one the producers delivered.
BestDigestKnown ==
    bestHeader \in knownHeaders \cup {Hash(EnqueuedSeq[i]) : i \in 1..produced}

\* C11: while the host chain's best-known digest is the hash of no header
\* the source chain knows, a running Forwarder comes to deliver one error on
\* the error channel and to stop with the headers queue empty (unless it is
\* cancelled first).
C11_UnknownBestDigestStops ==
    (~BestDigestKnown /\ ~cancelled) ~>
        \/ cancelled
        \/ (Len(errChan) = 1 /\ pc = "stopped" /\ headersQueue = <<>>)

\* The heights of the batch are contiguous and ascending.
Contiguous(hs) == \A i \in 2..Len(hs) : hs[i] = hs[i - 1] + 1

\* The class of a batch read off its heights alone.
ExpectedCase(hs) ==
    IF hs[1] % 2016 = 0
    THEN "first"
    ELSE IF \E i \in 2..Len(hs) : hs[i] % 2016 = 0
    THEN "span"
    ELSE "single"

\* Batches handed to the push phase so far, and the one about to be.
PushedBatches ==
    {pushLog[i] : i \in 1..Len(pushLog)} \cup
    (IF pc = "push" THEN {headers} ELSE {})

\* C12: a batch of 1 to 5 headers with contiguous ascending heights is
\* classified boundary-first exactly when its first height is a multiple of
\* 2016, boundary-spanning exactly when a later height is, and single-epoch
\* otherwise.
C12_Classification ==
    \A hs \in PushedBatches :
        (Len(hs) \in 1..5 /\ Contiguous(hs) /\ hs[1] >= 0) =>
            /\ difficultyCase(hs) = ExpectedCase(hs)
            /\ (difficultyCase(hs) = "span") <=>
                   (hs[1] % 2016 # 0 /\ hs[1] % 2016 > Last(hs) % 2016)

\* A batch with the boundary strictly inside it and a single-epoch batch of
\* one header were both classified.
C12_Witness ==
    /\ \E hs \in PushedBatches :
          Len(hs) >= 3 /\ Contiguous(hs) /\ ExpectedCase(hs) = "span"
    /\ \E hs \in PushedBatches :
          Len(hs) = 1 /\ ExpectedCase(hs) = "single"

\* The timer case of the pull select was taken (not the header or ctx case).
TimerCaseTaken ==
    /\ pc = "pull"
    /\ timerC /\ ~timerC'
    /\ headersQueue' = headersQueue
    /\ ~cancelled

\* C13: the pull phase returns an empty batch only once cancellation has
\* been signalled; the timer case with nothing collected restarts the timer
\* and keeps waiting; a batch about to be pushed is never empty; and an empty
\* pull leads back to the top of the loop, from where a cancelled loop only
\* stops (no push, no sleep).
C13_EmptyPullOnlyOnCancel ==
    /\ [](pc = "push" => Len(headers) > 0)
    /\ [][/\ (PullReturns /\ Len(headers') = 0) => (cancelled /\ pc' = "top")
          /\ (TimerCaseTaken /\ Len(headers) = 0) =>
                (pc' = "pull" /\ headers' = <<>> /\ timerActive')
          /\ (pc = "top" /\ cancelled) => pc' \in {"top", "stopped"}]_vars

\* An empty batch was returned to a cancelled loop after an earlier push.
C13_Witness ==
    /\ pc = "top"
    /\ cancelled
    /\ headers = <<>>
    /\ pushLog # <<>>

\* C14: every push is followed by the sleep, and any later pull or push
\* happens only after that sleep ran to its end: a sleep cut short by
\* cancellation is followed by the loop stopping.
C14_SleepBetweenPushes ==
    /\ [](pc \in {"pull", "push"} /\ pushLog # <<>> => sleptFull)
    /\ [][/\ PushStep => (pc' = "sleep" /\ (pushLog = <<>> \/ sleptFull))
          /\ (pc = "sleep" /\ pc' # "sleep" /\ ~sleptFull') =>
                (cancelled /\ pc' = "top")
          /\ (pc = "top" /\ pushLog # <<>> /\ ~sleptFull) =>
                pc' \in {"top", "stopped"}]_vars

\* A second push happened, and a later sleep was cut short by cancellation.
C14_Witness ==
    /\ Len(pushLog) >= 2
    /\ pc = "stopped"
    /\ ~sleptFull

\* C15: collecting a header discards an expiry that happened before it and
\* arms the timer afresh, so a partial batch is returned to an uncancelled
\* loop only on an expiry of the timer armed after the last collected header.
C15_TimeoutFromLastHeader ==
    [][/\ (pc = "pull" /\ pc' = "pull" /\ headers' # headers) =>
             (timerActive' /\ ~timerC')
       /\ (PullReturns /\ Len(headers') \in 1..4 /\ ~cancelled) =>
             (timerC /\ ~timerActive /\ headers' = headers)]_vars

\* A header was collected after the timer had expired, and the pull phase
\* is waiting again with the timer armed and its channel empty.
C15_Witness ==
    /\ drained
    /\ pc = "pull"
    /\ Len(headers) \in 1..4
    /\ timerActive /\ ~timerC

\* Number of headers handed to the push phase so far.
Pushed == Len(Flatten(pushLog))

C17_ProcessedHeadersRange ==
    /\ [](processedHeaders \in 0..4)
    /\ [][PushStep => processedHeaders + Len(headers) <= 9]_vars

\* A batch of 4 was pushed and then a full batch: the counter went 4, 9, 0.
C17_Witness ==
    /\ Len(pushLog) = 2
    /\ Len(pushLog[1]) = 4
    /\ Len(pushLog[2]) = 5
    /\ processedHeaders = 0

\* Headers dequeued and pushes made since the context was cancelled.
DequeuedAfterCancel == Dequeued - atCancel.dequeued

PushesAfterCancel == Len(pushLog) - atCancel.pushes

\* C18: once the context is cancelled the loop dequeues at most 5 more
\* headers and makes at most one more push.
C18_BoundedWorkAfterCancel ==
    cancelled => (DequeuedAfterCancel <= 5 /\ PushesAfterCancel <= 1)

\* The loop stopped after dequeuing 5 headers and pushing them, all of it
\* after the cancellation.
C18_Witness ==
    /\ cancelled
    /\ pc = "stopped"
    /\ DequeuedAfterCancel = 5
    /\ PushesAfterCancel = 1

\* C19: the drain of headerTimer.C never blocks, and at every entry to the
\* pull select the timer is either armed or expired with its value unread.
C19_TimerDrainNeverBlocks ==
    /\ pc # "blocked"
    /\ pc = "pull" => (timerActive # timerC)

\* The pull phase drained an expired timer (the drain completed) and stands
\* before the next one: 4 headers collected, the timer expired again with
\* its value unread, and a header waiting.
C19_Witness ==
    /\ pc = "pull"
    /\ drained
    /\ Len(headers) = 4
    /\ timerC
    /\ headersQueue # <<>>

====
